---- MODULE Spec2Model ----
(***************************************************************************)
(* Model of the upswing service skeleton:                                  *)
(*   - src/src/resources/objects.py  AppResources.initialize / destroy     *)
(*   - src/src/main.py               lifespan hook and the GET / endpoint  *)
(*   - src/src/utilities/response.py the response helpers                  *)
(* Two specifications: Spec is the application lifecycle, HelperSpec is    *)
(* the response helpers called in any order by handlers.                   *)
(***************************************************************************)
EXTENDS Integers, Sequences, FiniteSets, TLC

VARIABLES
    mongo,          \* environment: what MongoClient(...)[...] does at startup
    broker,         \* environment: which step of the RabbitMQ setup fails, if any
    pc,             \* position of the lifespan generator
    app_resources,  \* objects.app_resources
    attempted,      \* external connections initialize() tried to open
    mongoOpen,      \* a MongoClient exists and has not been closed
    brokerOpen,     \* a pika BlockingConnection is open
    log,            \* records emitted through the loggers, in order
    handled,        \* number of GET / requests handled
    lastResponse,   \* response of the last GET /
    signal,         \* how the wait at the yield ended
    destroyCalls,   \* number of invocations of destroy()
    destroyed,      \* the object destroy() was invoked on
    hookError,      \* exception that left the lifespan hook
    defaults,       \* the default-argument dict objects of the helpers
    last            \* outcome of the last response-helper call

lifeVars == <<mongo, broker, pc, app_resources, attempted, mongoOpen, brokerOpen,
              log, handled, lastResponse, signal, destroyCalls, destroyed, hookError>>
helperVars == <<defaults, last>>
vars == <<lifeVars, helperVars>>

----------------------------------------------------------------------------
(* Bounds *)
MaxRequests == 3

----------------------------------------------------------------------------
(* Resource container: src/src/resources/objects.py *)

None == "None"

\* objects.app_resources before startup is the class AppResources itself,
\* whose attributes are the dataclass defaults.
AppResourcesClass ==
    [instance |-> FALSE, database |-> None, channel |-> None, connection |-> None]

MongoOutcomes == {"ok", "ConnectionFailure", "OtherError"}
BrokerOutcomes == {"ok", "credentials_fail", "connect_fail", "channel_fail"}

\* The MongoDB block of initialize(): only ConnectionFailure is caught.
MongoSetup(m) ==
    CASE m = "ok" ->
           [raised |-> "none", database |-> "MongoDatabase", open |-> TRUE,
            log |-> <<"INFO MongoDB Connected!">>]
      [] m = "ConnectionFailure" ->
           [raised |-> "none", database |-> None, open |-> FALSE,
            log |-> <<"ERROR MongoDB Connection Failed">>]
      [] OTHER ->
           [raised |-> m, database |-> None, open |-> FALSE, log |-> <<>>]

\* The RabbitMQ block of initialize(): every Exception is caught; the
\* assignments made before the failing statement stay.
BrokerSetup(b) ==
    CASE b = "ok" ->
           [connection |-> "BlockingConnection", channel |-> "BlockingChannel",
            open |-> TRUE, log |-> <<"INFO RabbitMQ Connected!">>]
      [] b = "channel_fail" ->
           [connection |-> "BlockingConnection", channel |-> None,
            open |-> TRUE, log |-> <<"ERROR RabbitMQ Connection Failed">>]
      [] OTHER ->
           [connection |-> None, channel |-> None,
            open |-> FALSE, log |-> <<"ERROR RabbitMQ Connection Failed">>]

InitializeUncaught(m, b) ==
    LET ms == MongoSetup(m)
        bs == BrokerSetup(b)
    IN  IF m # "ok"
        THEN [raised |-> m, resources |-> AppResourcesClass,
              attempted |-> {"mongo"}, mongoOpen |-> FALSE, brokerOpen |-> FALSE,
              log |-> <<>>]
        ELSE [raised |-> "none",
              resources |-> [instance |-> TRUE, database |-> ms.database,
                             channel |-> bs.channel, connection |-> bs.connection],
              attempted |-> {"mongo", "broker"},
              mongoOpen |-> ms.open, brokerOpen |-> bs.open,
              log |-> ms.log \o bs.log]

\* AppResources.initialize(): the result, or the exception that escapes it.
Initialize(m, b) ==
    LET ms == MongoSetup(m)
        bs == BrokerSetup(b)
    IN  IF ms.raised # "none"
        THEN [raised |-> ms.raised, resources |-> AppResourcesClass,
              attempted |-> {"mongo"}, mongoOpen |-> FALSE, brokerOpen |-> FALSE,
              log |-> <<>>]
        ELSE [raised |-> "none",
              resources |-> [instance |-> TRUE, database |-> ms.database,
                             channel |-> bs.channel, connection |-> bs.connection],
              attempted |-> {"mongo", "broker"},
              mongoOpen |-> ms.open, brokerOpen |-> bs.open,
              log |-> ms.log \o bs.log]

\* AppResources.destroy(): self.database.client on an unset database raises
\* AttributeError before anything is closed or logged.
Destroy(res, mOpen, bOpen) ==
    IF res.database = None
    THEN [raised |-> "AttributeError", mongoOpen |-> mOpen, brokerOpen |-> bOpen,
          log |-> <<>>]
    ELSE IF res.connection # None
         THEN [raised |-> "none", mongoOpen |-> FALSE, brokerOpen |-> FALSE,
               log |-> <<"INFO MongoDB Connection Closed!",
                         "INFO RabbitMQ Connection Closed!">>]
         ELSE [raised |-> "none", mongoOpen |-> FALSE, brokerOpen |-> bOpen,
               log |-> <<"INFO MongoDB Connection Closed!",
                         "WARNING RabbitMQ Connection object is None, skipping closing.">>]

----------------------------------------------------------------------------
(* Application bootstrap: src/src/main.py *)

HTTP_200_OK == 200

NoResponse == [status |-> 0, body |-> <<>>]

RootUnhealthy(res) ==
    IF res.database = None
    THEN [status |-> 503, body |-> <<"Hotal management API", "1.0", "unhealthy">>]
    ELSE [status |-> HTTP_200_OK, body |-> <<"Hotal management API", "1.0", "healthy">>]

\* root(): the body is the triple (App, version, status).
Root(res) ==
    [status |-> HTTP_200_OK, body |-> <<"Hotal management API", "1.0", "healthy">>]

StartupYieldFirst ==
    /\ pc = "start"
    /\ pc' = "serving"
    /\ UNCHANGED <<helperVars, mongo, broker, app_resources, attempted, mongoOpen, brokerOpen,
                   log, handled, lastResponse, signal, destroyCalls, destroyed,
                   hookError>>

StartupSwallow ==
    /\ pc = "start"
    /\ LET r == Initialize(mongo, broker)
       IN  /\ app_resources' = IF r.raised = "none" THEN r.resources ELSE app_resources
           /\ attempted' = r.attempted
           /\ mongoOpen' = r.mongoOpen
           /\ brokerOpen' = r.brokerOpen
           /\ log' = IF r.raised = "none"
                     THEN log \o r.log \o <<"INFO Application started successfully.">>
                     ELSE log \o r.log \o <<"EXCEPTION Error occurred while initializing the objects">>
           /\ hookError' = "none"
           /\ pc' = "serving"
    /\ UNCHANGED <<helperVars, mongo, broker, handled, lastResponse, signal, destroyCalls, destroyed>>

\* lifespan() up to the yield: initialize, log and re-raise what escapes it.
Startup ==
    /\ pc = "start"
    /\ LET r == Initialize(mongo, broker)
       IN  /\ app_resources' = IF r.raised = "none" THEN r.resources ELSE app_resources
           /\ attempted' = r.attempted
           /\ mongoOpen' = r.mongoOpen
           /\ brokerOpen' = r.brokerOpen
           /\ log' = IF r.raised = "none"
                     THEN log \o r.log \o <<"INFO Application started successfully.">>
                     ELSE log \o r.log \o <<"EXCEPTION Error occurred while initializing the objects">>
           /\ hookError' = r.raised
           /\ pc' = IF r.raised = "none" THEN "serving" ELSE "aborted"
    /\ UNCHANGED <<helperVars, mongo, broker, handled, lastResponse, signal, destroyCalls, destroyed>>

\* GET / while the generator is suspended at the yield.
GetRoot ==
    /\ pc = "serving"
    /\ handled < MaxRequests
    /\ handled' = handled + 1
    /\ lastResponse' = Root(app_resources)
    /\ UNCHANGED <<helperVars, mongo, broker, pc, app_resources, attempted, mongoOpen, brokerOpen,
                   log, signal, destroyCalls, destroyed, hookError>>

Signals == {"return", "CancelledError", "Exception"}

\* The wait at the yield ends: the framework resumes the generator normally,
\* or throws CancelledError or another exception into it.
YieldEnds ==
    /\ pc = "serving"
    /\ \E s \in Signals : signal' = s
    /\ pc' = "exiting"
    /\ UNCHANGED <<helperVars, mongo, broker, app_resources, attempted, mongoOpen, brokerOpen,
                   log, handled, lastResponse, destroyCalls, destroyed, hookError>>

ExitDestroyInElse ==
    /\ pc = "exiting"
    /\ IF signal = "return"
       THEN LET d == Destroy(app_resources, mongoOpen, brokerOpen)
            IN  /\ destroyCalls' = destroyCalls + 1
                /\ destroyed' = app_resources
                /\ mongoOpen' = d.mongoOpen
                /\ brokerOpen' = d.brokerOpen
                /\ log' = IF d.raised = "none"
                          THEN log \o d.log \o <<"WARNING Application shutting down.">>
                          ELSE log \o d.log
                /\ hookError' = d.raised
       ELSE /\ hookError' = IF signal = "Exception" THEN "Exception" ELSE "none"
            /\ UNCHANGED <<destroyCalls, destroyed, mongoOpen, brokerOpen, log>>
    /\ pc' = "done"
    /\ UNCHANGED <<helperVars, mongo, broker, app_resources, attempted, handled, lastResponse, signal>>

\* lifespan() after the yield: except CancelledError: pass; finally: destroy().
\* An exception raised by destroy() replaces the one in flight.
Exit ==
    /\ pc = "exiting"
    /\ LET d == Destroy(app_resources, mongoOpen, brokerOpen)
       IN  /\ destroyCalls' = destroyCalls + 1
           /\ destroyed' = app_resources
           /\ mongoOpen' = d.mongoOpen
           /\ brokerOpen' = d.brokerOpen
           /\ log' = IF d.raised = "none"
                     THEN log \o d.log \o <<"WARNING Application shutting down.">>
                     ELSE log \o d.log
           /\ hookError' = IF d.raised # "none" THEN d.raised
                           ELSE IF signal = "Exception" THEN "Exception"
                           ELSE "none"
    /\ pc' = "done"
    /\ UNCHANGED <<helperVars, mongo, broker, app_resources, attempted, handled, lastResponse, signal>>

----------------------------------------------------------------------------
(* Response helpers: src/src/utilities/response.py *)

HTTP_400_BAD_REQUEST == 400
HTTP_401_UNAUTHORIZED == 401
HTTP_404_NOT_FOUND == 404
HTTP_409_CONFLICT == 409
HTTP_500_INTERNAL_SERVER_ERROR == 500

\* A mapping (Python dict) is a set of <<key, value>> pairs with distinct keys.
Keys == {"a"}
Vals == {1}
Mappings == {{}} \cup {{<<k, v>>} : k \in Keys, v \in Vals}
Messages == {"x"}

\* d[k] = v
Put(d, k, v) == {p \in d : p[1] # k} \cup {<<k, v>>}

\* An argument of a call: given by the caller, or omitted.
Omitted == [given |-> FALSE, val |-> {}]
MessageArgs == {[given |-> FALSE, val |-> ""]} \cup {[given |-> TRUE, val |-> m] : m \in Messages}
SuccessArgs == {[given |-> FALSE, val |-> FALSE]} \cup {[given |-> TRUE, val |-> b] : b \in BOOLEAN}
MappingArgs == {Omitted} \cup {[given |-> TRUE, val |-> m] : m \in Mappings}

\* The dict objects created once, at definition time, for data={} and paginator={}.
DefaultCells ==
    {"response_ok.data", "response_ok.paginator",
     "response_created.data", "response_created.paginator",
     "response_bad_request.data", "response_bad_request.paginator",
     "response_unauthenticate.data", "response_unauthenticate.paginator",
     "response_not_found.data", "response_not_found.paginator",
     "response_internal_server_error.data", "response_internal_server_error.paginator"}

\* Binding of an immutable parameter (message, success).
Bind(arg, default) == IF arg.given THEN arg.val ELSE default

\* Binding of a dict parameter: a reference to the caller's object, or to the
\* helper's one default object.
BindRef(arg, cell) ==
    IF arg.given THEN [cell |-> "caller", own |-> arg.val]
    ELSE [cell |-> cell, own |-> {}]

Envelope(message, success, data, paginator) ==
    [message |-> message, success |-> success, data |-> data, paginator |-> paginator]

Return(name, payload) ==
    [helper |-> name, outcome |-> "return", status |-> 0, payload |-> payload]

Raise(name, code, detail) ==
    [helper |-> name, outcome |-> "raise", status |-> code, payload |-> detail]

response_ok(message, success, data, paginator) ==
    Return("response_ok",
           Envelope(Bind(message, "Ok"), Bind(success, TRUE),
                    BindRef(data, "response_ok.data"),
                    BindRef(paginator, "response_ok.paginator")))

response_created(message, success, data, paginator) ==
    Return("response_created",
           Envelope(Bind(message, "Resource created"), Bind(success, TRUE),
                    BindRef(data, "response_created.data"),
                    BindRef(paginator, "response_created.paginator")))

\* The success parameter is accepted and ignored.
response_conflict(message, success) ==
    Raise("response_conflict", HTTP_409_CONFLICT,
          [message |-> Bind(message, "Conflict"), success |-> FALSE])

response_bad_request(message, success, data, paginator) ==
    Raise("response_bad_request", HTTP_400_BAD_REQUEST,
          Envelope(Bind(message, "Bad Request"), Bind(success, FALSE),
                   BindRef(data, "response_bad_request.data"),
                   BindRef(paginator, "response_bad_request.paginator")))

response_too_many_active_sessions(message) ==
    Raise("response_too_many_active_sessions", HTTP_400_BAD_REQUEST,
          [message |-> Bind(message, "Multiple Sessions are active"), success |-> FALSE])

response_unauthenticate(message, success, data, paginator) ==
    Raise("response_unauthenticate", HTTP_401_UNAUTHORIZED,
          Envelope(Bind(message, "Unauthenticate"), Bind(success, FALSE),
                   BindRef(data, "response_unauthenticate.data"),
                   BindRef(paginator, "response_unauthenticate.paginator")))

response_not_found_400(message, success, data, paginator) ==
    Raise("response_not_found", HTTP_400_BAD_REQUEST,
          Envelope(Bind(message, "Not Found"), Bind(success, FALSE),
                   BindRef(data, "response_not_found.data"),
                   BindRef(paginator, "response_not_found.paginator")))

response_not_found(message, success, data, paginator) ==
    Raise("response_not_found", HTTP_404_NOT_FOUND,
          Envelope(Bind(message, "Not Found"), Bind(success, FALSE),
                   BindRef(data, "response_not_found.data"),
                   BindRef(paginator, "response_not_found.paginator")))

response_sesion_not_available(message) ==
    Raise("response_sesion_not_available", HTTP_404_NOT_FOUND,
          [message |-> Bind(message, "Session not available"), success |-> FALSE])

response_internal_server_error(message, success, data, paginator) ==
    Raise("response_internal_server_error", HTTP_500_INTERNAL_SERVER_ERROR,
          Envelope(Bind(message, "Internal server error"), Bind(success, FALSE),
                   BindRef(data, "response_internal_server_error.data"),
                   BindRef(paginator, "response_internal_server_error.paginator")))

FourArgHelpers ==
    {"response_ok", "response_created", "response_bad_request",
     "response_unauthenticate", "response_not_found", "response_internal_server_error"}

Dispatch4(h, m, s, d, p) ==
    CASE h = "response_ok" -> response_ok(m, s, d, p)
      [] h = "response_created" -> response_created(m, s, d, p)
      [] h = "response_bad_request" -> response_bad_request(m, s, d, p)
      [] h = "response_unauthenticate" -> response_unauthenticate(m, s, d, p)
      [] h = "response_not_found" -> response_not_found(m, s, d, p)
      [] OTHER -> response_internal_server_error(m, s, d, p)

\* The mapping a reference denotes now.
Deref(ref) == IF ref.cell = "caller" THEN ref.own ELSE defaults[ref.cell]

NoCall ==
    [helper |-> "none", outcome |-> "none", status |-> 0,
     payload |-> [message |-> "", success |-> FALSE],
     args |-> [message |-> [given |-> FALSE, val |-> ""],
               success |-> [given |-> FALSE, val |-> FALSE],
               data |-> Omitted, paginator |-> Omitted],
     fresh |-> FALSE]

Called(result, m, s, d, p) ==
    [helper |-> result.helper, outcome |-> result.outcome, status |-> result.status,
     payload |-> result.payload,
     args |-> [message |-> m, success |-> s, data |-> d, paginator |-> p],
     fresh |-> TRUE]

\* A handler calls one of the helpers taking message, success, data, paginator.
CallFour ==
    /\ \E h \in FourArgHelpers, m \in MessageArgs, s \in SuccessArgs,
          d \in MappingArgs, p \in MappingArgs :
          last' = Called(Dispatch4(h, m, s, d, p), m, s, d, p)
    /\ UNCHANGED <<defaults, lifeVars>>

CallConflict ==
    /\ \E m \in MessageArgs, s \in SuccessArgs :
          last' = Called(response_conflict(m, s), m, s, Omitted, Omitted)
    /\ UNCHANGED <<defaults, lifeVars>>

CallSessionVariant ==
    /\ \E m \in MessageArgs :
          \/ last' = Called(response_too_many_active_sessions(m), m,
                            [given |-> FALSE, val |-> FALSE], Omitted, Omitted)
          \/ last' = Called(response_sesion_not_available(m), m,
                            [given |-> FALSE, val |-> FALSE], Omitted, Omitted)
    /\ UNCHANGED <<defaults, lifeVars>>

\* The caller writes envelope[f][k] = v on the envelope it was returned: the
\* write lands in the object the field refers to.
ModifyReturned ==
    /\ last.outcome = "return"
    /\ \E f \in {"data", "paginator"}, k \in Keys, v \in Vals :
          LET ref == last.payload[f]
          IN  IF ref.cell = "caller"
              THEN /\ last' = [last EXCEPT !.payload[f].own = Put(@, k, v),
                                           !.fresh = FALSE]
                   /\ UNCHANGED defaults
              ELSE /\ defaults' = [defaults EXCEPT ![ref.cell] = Put(@, k, v)]
                   /\ last' = [last EXCEPT !.fresh = FALSE]
    /\ UNCHANGED lifeVars

----------------------------------------------------------------------------
(* Specifications *)

Init ==
    /\ mongo \in MongoOutcomes
    /\ broker \in BrokerOutcomes
    /\ pc = "start"
    /\ app_resources = AppResourcesClass
    /\ attempted = {}
    /\ mongoOpen = FALSE
    /\ brokerOpen = FALSE
    /\ log = <<>>
    /\ handled = 0
    /\ lastResponse = NoResponse
    /\ signal = "none"
    /\ destroyCalls = 0
    /\ destroyed = AppResourcesClass
    /\ hookError = "none"
    /\ defaults = [c \in DefaultCells |-> {}]
    /\ last = NoCall

Next ==
    \/ Startup
    \/ GetRoot
    \/ YieldEnds
    \/ Exit

Spec == Init /\ [][Next]_vars

\* Once the generator is resumed it runs to its end.
FairSpec == Spec /\ WF_vars(Exit)

HelperInit ==
    /\ Init
    /\ mongo = "ok"
    /\ broker = "ok"

HelperNext ==
    \/ CallFour
    \/ CallConflict
    \/ CallSessionVariant
    \/ ModifyReturned

HelperSpec == HelperInit /\ [][HelperNext]_vars

----------------------------------------------------------------------------
(* Properties *)

InLog(entry) == \E i \in DOMAIN log : log[i] = entry

FourKeys == {"message", "success", "data", "paginator"}
TwoKeys == {"message", "success"}

\* C1: destroy() on a container returned by initialize() whose broker
\* connection is unset completes without raising, whatever the database
\* handle: it logs the skip warning instead of closing the broker.
C1_DestroyWithoutBrokerDoesNotRaise ==
    (pc = "done" /\ destroyed.instance /\ destroyed.connection = None)
        => /\ hookError # "AttributeError"
           /\ InLog("WARNING RabbitMQ Connection object is None, skipping closing.")

\* C2: when the MongoDB connection fails with ConnectionFailure, initialize()
\* does not raise: the failure is logged, the broker setup is still attempted,
\* the container is returned with database unset, and the hook reaches the
\* serving phase.
C2_DatabaseFailureIsNotFatal ==
    (mongo = "ConnectionFailure" /\ pc # "start")
        => /\ pc # "aborted"
           /\ app_resources.instance
           /\ app_resources.database = None
           /\ InLog("ERROR MongoDB Connection Failed")
           /\ "broker" \in attempted
           /\ InLog("INFO Application started successfully.")
           /\ (pc = "serving" => hookError = "none")

C2_Witness ==
    /\ mongo = "ConnectionFailure"
    /\ pc = "serving"
    /\ handled > 0
    /\ app_resources.database = None

\* C3: a request is handled only after initialize() has returned and before
\* destroy() is invoked; destroy() is invoked only once the hook has left the
\* serving phase, and no request is handled from then on.
C3_InitBeforeRequestsTeardownAfter ==
    [][ /\ (handled' # handled
              => app_resources.instance /\ pc = "serving" /\ destroyCalls = 0)
        /\ (destroyCalls' # destroyCalls => pc # "serving" /\ handled' = handled)
        /\ (destroyCalls > 0 => handled' = handled) ]_vars

C3_Witness ==
    /\ handled > 0
    /\ destroyCalls = 1
    /\ pc = "done"

\* C4: once startup has completed, every way the wait at the yield ends leads
\* to exactly one destroy() call, on the container created at startup; a
\* CancelledError never leaves the hook, and when destroy() itself does not
\* raise a return or a cancellation ends the hook without error.
C4_DestroyExactlyOnceCancellationAbsorbed ==
    /\ [](destroyCalls <= 1)
    /\ [](pc = "done"
            => /\ destroyCalls = 1
               /\ destroyed.instance
               /\ destroyed = app_resources
               /\ hookError # "CancelledError"
               /\ (signal \in {"return", "CancelledError"} /\ destroyed.database # None
                     => hookError = "none"))
    /\ ((pc = "exiting") ~> (destroyCalls = 1))

C4_Witness ==
    /\ pc = "done"
    /\ signal = "CancelledError"
    /\ destroyCalls = 1
    /\ hookError = "none"

\* C5: an exception escaping initialize() is logged and re-raised by the
\* startup hook: the serving phase is never reached, no request is handled
\* and destroy() is not invoked.
C5_EscapingExceptionAbortsStartup ==
    (mongo \notin {"ok", "ConnectionFailure"} /\ pc # "start")
        => /\ pc = "aborted"
           /\ hookError = mongo
           /\ InLog("EXCEPTION Error occurred while initializing the objects")
           /\ handled = 0
           /\ destroyCalls = 0
           /\ ~app_resources.instance

C5_Witness ==
    /\ pc = "aborted"
    /\ hookError = "OtherError"

\* C6: the five standard error helpers raise a payload with exactly the keys
\* message, success, data, paginator and success = false, for every choice of
\* arguments; the two session variants carry exactly message and
\* success = false.
C6_ErrorPayloadShape ==
    last.outcome = "raise"
        => IF last.helper \in {"response_bad_request", "response_unauthenticate",
                               "response_not_found", "response_conflict",
                               "response_internal_server_error"}
           THEN DOMAIN last.payload = FourKeys /\ last.payload.success = FALSE
           ELSE DOMAIN last.payload = TwoKeys /\ last.payload.success = FALSE

C8_RootAlwaysHealthy ==
    [][ handled' # handled
          => /\ lastResponse' = [status |-> 200,
                                 body |-> <<"Hotal management API", "1.0", "healthy">>]
             /\ app_resources' = app_resources
             /\ mongoOpen' = mongoOpen
             /\ brokerOpen' = brokerOpen ]_vars

C8_Witness ==
    /\ handled > 0
    /\ pc = "serving"
    /\ app_resources.database = None
    /\ app_resources.connection = None
    /\ lastResponse.status = 200

\* C9: after initialize() returns, connection and channel are both set or
\* both unset; when a step of the broker setup fails both are unset and the
\* container holds no open broker connection.
C9_BrokerHandlesAgree ==
    (app_resources.instance /\ pc = "serving")
        => /\ (app_resources.connection = None <=> app_resources.channel = None)
           /\ (broker # "ok"
                 => /\ app_resources.connection = None
                    /\ app_resources.channel = None
                    /\ ~brokerOpen)

\* C10: response_ok and response_created return exactly the four fields with
\* the values of the arguments given, and empty data and paginator mappings
\* when those are omitted, after any earlier calls and any writes by callers
\* to envelopes returned earlier.
C10_ReturnedEnvelopeMatchesArguments ==
    (last.fresh /\ last.outcome = "return")
        => /\ DOMAIN last.payload = FourKeys
           /\ (last.args.message.given => last.payload.message = last.args.message.val)
           /\ (last.args.success.given => last.payload.success = last.args.success.val)
           /\ Deref(last.payload.data)
                = (IF last.args.data.given THEN last.args.data.val ELSE {})
           /\ Deref(last.payload.paginator)
                = (IF last.args.paginator.given THEN last.args.paginator.val ELSE {})

====
